---- MODULE Spec2Model ----
(***************************************************************************)
(* A model of RFM69/radio.py (class Radio): the send / acknowledge / retry *)
(* engine, the CSMA gate, the frame encoder, the interrupt-driven receive  *)
(* path with its queue and ack table, and shutdown.                        *)
(*                                                                         *)
(* Two threads run the driver: "app" (the caller of the public methods)    *)
(* and "irq" (the RPi.GPIO callback thread that runs _interruptHandler).   *)
(* Each statement that reads or writes shared state is one step of its     *)
(* thread, so the two interleave as the Python threads do.                 *)
(*                                                                         *)
(* Time is counted in ticks of TickMs milliseconds; a timer holds          *)
(* floor(elapsed / TickMs).                                                *)
(***************************************************************************)
EXTENDS Integers, Sequences, FiniteSets, TLC

(* ------------------------------ bounds -------------------------------- *)

\* send(..., attempts = n): n ranges over 0 .. MaxAttempts
MaxAttempts == 2
\* send(..., wait = w): w ranges over 0 .. MaxWaitTicks ticks
MaxWaitTicks == 2
\* frames the air delivers to the chip in one behaviour
MaxFrames == 2
\* of these, the ack frames delivered while send is under study
MaxAcks == 1
\* payloads handed to _sendFrame are up to RF69_MAX_DATA_LEN + MaxOver long
MaxOver == 2
\* set_power_level(percent): percent ranges from PercentMargin below 0 to
\* PercentMargin above 100
PercentMargin == 4

(* ------------------------- program constants -------------------------- *)

\* radio.py:224  attempts = kwargs.get('attempts', 3)
DefaultAttempts == 3
\* radio.py:225  wait_time = kwargs.get('wait', 50)   (milliseconds)
DefaultWaitMs == 50
\* radio.py:239  time.sleep(.05) between two polls of the ack table, in ms;
\* one tick of the model's clock is this long
TickMs == 50
\* radio.py:205  broadcastAddress = 255
broadcastAddress == 255
\* radio.py:533  a header length above 66 is clamped to 66
FifoCeiling == 66

\* registers.py (not part of the sources at hand): values as the register
\* table of the RFM69 driver family gives them
RF69_BROADCAST_ADDR == 255
RF69_MAX_DATA_LEN == 61
RF69_CSMA_LIMIT_MS == 100
CSMA_LIMIT == -90
REG_FIFO == 0

RF69_MODE_SLEEP == "Sleep"
RF69_MODE_STANDBY == "Standby"
RF69_MODE_SYNTH == "Synth"
RF69_MODE_RX == "RX"
RF69_MODE_TX == "TX"

Modes ==
    {RF69_MODE_SLEEP, RF69_MODE_STANDBY, RF69_MODE_SYNTH, RF69_MODE_RX, RF69_MODE_TX}

(* ----------------------------- the state ------------------------------ *)

VARIABLES
    \* construction-time configuration (radio.py:39-46, 85)
    address, promiscuousMode, auto_acknowledge, isRFM69HW,
    \* driver fields (radio.py:48-62)
    mode, intLock, sendLock, packets, acks,
    \* the chip and the pins, as the driver sees them
    dio0, payloadReady, packetSent, fifo, edge, regOcp, regPaLevel, regTestPA, gpio, rssiReg,
    \* program counters and locals of the two threads
    pc, call, require_ack, attempt, timer, slept, result, snapshot, hdr,
    \* what has been written to the FIFO, what the application was handed,
    \* how many frames the air has delivered, how many packets were enqueued
    txLog, delivered, arrived, enqueued,
    \* history: an ack-reply from call.toAddress was recorded (ackSeen), and
    \* where the sender was at that moment (ackInWindow, ackBeforePoll); how
    \* many ack-replies of each sender the handler has recorded since the
    \* last check for that sender (unconsumed); an ack-reply from
    \* call.toAddress was recorded after the call wrote its first frame
    \* (ackAfterTx)
    ackSeen, ackInWindow, ackBeforePoll, unconsumed, ackAfterTx,
    \* settings: self.powerLevel and the power field of REG_PALEVEL
    \* (radio.py:185-186); the listen timing (radio.py:628-641)
    powerLevel, regPaPower, listen,
    \* the steps construction has gone through, in order (radio.py:64-90)
    initLog,
    \* the threads that are between select() and unselect() (radio.py:106-110)
    selected

\* the settings, and the bus seen one transaction at a time: the steps of
\* the send and receive paths leave them as they are
setVars == <<powerLevel, regPaPower, listen, initLog, selected>>
cfgVars == <<address, promiscuousMode, auto_acknowledge, isRFM69HW, setVars>>
drvVars == <<mode, intLock, sendLock, packets, acks>>
chipVars == <<dio0, payloadReady, packetSent, fifo, edge, regOcp, regPaLevel, regTestPA, gpio, rssiReg>>
thrVars == <<pc, call, require_ack, attempt, timer, slept, result, snapshot, hdr>>
logVars == <<txLog, delivered, arrived, enqueued>>
histVars == <<ackSeen, ackInWindow, ackBeforePoll, unconsumed, ackAfterTx>>

vars == <<cfgVars, drvVars, chipVars, thrVars, logVars, histVars>>

Threads == {"app", "irq"}

\* a Python str is a sequence of characters, a list a sequence of integers
StrBuff(cs) == [kind |-> "str", chars |-> cs, ints |-> <<>>]
ListBuff(bs) == [kind |-> "list", chars |-> <<>>, ints |-> bs]

NoBuff == StrBuff(<<>>)
NoCall ==
    [op |-> "none", toAddress |-> 0, buff |-> NoBuff, attempts |-> 0,
     wait |-> 0, require_ack |-> FALSE, args |-> <<>>]
NoResult == [kind |-> "pending", val |-> <<>>]
Returned(k, v) == [kind |-> k, val |-> v]

\* an empty FIFO reads as zeros
NoFrame == [length |-> 0, target |-> 0, sender |-> 0, ctl |-> 0, data |-> <<>>]
NoHdr == [length |-> 0, target |-> 0, sender |-> 0, ctl |-> 0]

(* ------------------------------ helpers ------------------------------- *)

Min(a, b) == IF a < b THEN a ELSE b

\* bit b (its weight: 128, 64, ...) of byte x is set: x & b != 0
BitSet(x, b) == (x \div b) % 2 = 1

\* s[0:n] of a Python sequence
Prefix(s, n) == SubSeq(s, 1, Min(Len(s), n))

\* x | 0x80 for a byte x
Or0x80(x) == IF BitSet(x, 128) THEN x ELSE x + 128

\* ord(c) for the characters the model sends
Chars == {"A", "b", "0"}
Ord(c) == CASE c = "A" -> 65 [] c = "b" -> 98 [] c = "0" -> 48

(* ---------------------------- the settings ---------------------------- *)

\* radio.py:71  kwargs.get('power', 70)
DefaultPower == 70

\* round(x / 100) of Python 3 for an integer x: to the nearest integer, a
\* half going to the even neighbour
RoundHundredths(x) ==
    LET q == x \div 100
        r == x % 100
    IN  IF r < 50 THEN q
        ELSE IF r > 50 THEN q + 1
        ELSE IF q % 2 = 0 THEN q ELSE q + 1

\* radio.py:185  int(round(31 * (percent / 100)))
PowerCode(percent) == RoundHundredths(31 * percent)

\* registers.py (not part of the sources at hand): the resolution codes of
\* REG_LISTEN1, as the register map of the chip gives them
RF_LISTEN1_RESOL_RX_64 == 16
RF_LISTEN1_RESOL_RX_4100 == 32
RF_LISTEN1_RESOL_RX_262000 == 48
RF_LISTEN1_RESOL_IDLE_64 == 64
RF_LISTEN1_RESOL_IDLE_4100 == 128
RF_LISTEN1_RESOL_IDLE_262000 == 192

\* radio.py:622-623  the lists listenModeSetDurations searches, each ending in 0
rxResolutions ==
    <<RF_LISTEN1_RESOL_RX_64, RF_LISTEN1_RESOL_RX_4100, RF_LISTEN1_RESOL_RX_262000, 0>>
idleResolutions ==
    <<RF_LISTEN1_RESOL_IDLE_64, RF_LISTEN1_RESOL_IDLE_4100,
      RF_LISTEN1_RESOL_IDLE_262000, 0>>

\* radio.py:590-598  _getUsForResolution(resolution)
_getUsForResolution(resolution) ==
    IF resolution \in {RF_LISTEN1_RESOL_RX_64, RF_LISTEN1_RESOL_IDLE_64} THEN 64
    ELSE IF resolution \in {RF_LISTEN1_RESOL_RX_4100, RF_LISTEN1_RESOL_IDLE_4100}
         THEN 4100
    ELSE IF resolution \in {RF_LISTEN1_RESOL_RX_262000, RF_LISTEN1_RESOL_IDLE_262000}
         THEN 262000
    ELSE 0

Abs(x) == IF x < 0 THEN 0 - x ELSE x

\* radio.py:600-606  _getCoefForResolution(resolution, duration), for a
\* duration >= 0: int(duration / resolDuration) and the step to the next
\* coefficient when that is closer; the division raises ZeroDivisionError
\* when the resolution has no unit
_getCoefForResolution(resolution, duration) ==
    LET resolDuration == _getUsForResolution(resolution)
    IN  IF resolDuration = 0 THEN [raised |-> TRUE, coef |-> 0]
        ELSE LET res == duration \div resolDuration
             IN  [raised |-> FALSE,
                  coef |-> IF Abs(duration - (res + 1) * resolDuration)
                                 < Abs(duration - res * resolDuration)
                           THEN res + 1 ELSE res]

\* radio.py:614  if (coef <= 255)
CoefFits(coef) == coef <= 255

\* radio.py:611-619  _chooseResolutionAndCoef(resolutions, duration): the
\* first resolution whose coefficient is at most 255; "none" is (None, None)
RECURSIVE _chooseResolutionAndCoef(_, _)
_chooseResolutionAndCoef(resolutions, duration) ==
    IF resolutions = <<>>
    THEN [kind |-> "none", resol |-> 0, coef |-> 0]
    ELSE LET c == _getCoefForResolution(Head(resolutions), duration)
         IN  IF c.raised THEN [kind |-> "ZeroDivisionError", resol |-> 0, coef |-> 0]
             ELSE IF CoefFits(c.coef)
                  THEN [kind |-> "found", resol |-> Head(resolutions), coef |-> c.coef]
                  ELSE _chooseResolutionAndCoef(Tail(resolutions), duration)

\* radio.py:626, 633  if (resolOut and coefOut): both found and neither 0
Truthy(choice) == choice.kind = "found" /\ choice.resol # 0 /\ choice.coef # 0

\* radio.py:64-71, 75-88, 114-118  the steps of a construction that
\* succeeds, with the default reset pin
InitSteps ==
    <<"hard_reset", "sync", "config", "high_power", "mode_ready", "identity",
      "interrupt", "encryption", "power">>

\* the listen timing before any call has set it; the durations of the
\* constructor's call (radio.py:55) are constants of registers.py
ListenUnset ==
    [rxResolution |-> 0, rxCoef |-> 0, idleResolution |-> 0, idleCoef |-> 0,
     cycleUs |-> 0]

\* radio.py:621-642  listenModeSetDurations(rxDuration, idleDuration): the
\* timing it leaves and what comes out of it, from the timing `now`
SetDurations(now, rxDuration, idleDuration) ==
    LET rx == _chooseResolutionAndCoef(rxResolutions, rxDuration)
        idle == _chooseResolutionAndCoef(idleResolutions, idleDuration)
        withRx == [now EXCEPT !.rxResolution = rx.resol, !.rxCoef = rx.coef]
        withIdle == [withRx EXCEPT !.idleResolution = idle.resol,
                                  !.idleCoef = idle.coef]
        rxUs == _getUsForResolution(rx.resol) * rx.coef
        idleUs == _getUsForResolution(idle.resol) * idle.coef
    IN  IF rx.kind = "ZeroDivisionError"
        THEN [timing |-> now, out |-> Returned("ZeroDivisionError", <<>>)]
        ELSE IF ~Truthy(rx)
        THEN [timing |-> now, out |-> Returned("None", <<>>)]
        ELSE IF idle.kind = "ZeroDivisionError"
        THEN [timing |-> withRx, out |-> Returned("ZeroDivisionError", <<>>)]
        ELSE IF ~Truthy(idle)
        THEN [timing |-> withRx, out |-> Returned("None", <<>>)]
        ELSE [timing |-> [withIdle EXCEPT !.cycleUs = rxUs + idleUs],
              out |-> Returned("tuple", <<rxUs, idleUs>>)]

(* ------------------------- _sendFrame: encoding ------------------------ *)

\* mutant: the buffer goes out as it came
TruncateNever(buff) == buff

\* radio.py:407-408  if len(buff) > RF69_MAX_DATA_LEN: buff = buff[0:RF69_MAX_DATA_LEN]
Truncate(buff) ==
    [buff EXCEPT !.chars = Prefix(@, RF69_MAX_DATA_LEN),
                 !.ints = Prefix(@, RF69_MAX_DATA_LEN)]

\* len(buff)
BuffLen(buff) == IF buff.kind = "str" THEN Len(buff.chars) ELSE Len(buff.ints)

\* radio.py:417 / 419  the bytes appended to the header: ord of each
\* character of a str, the items of a list
BuffBytes(buff) ==
    IF buff.kind = "str"
    THEN [i \in 1 .. Len(buff.chars) |-> Ord(buff.chars[i])]
    ELSE buff.ints

\* radio.py:410-414
ControlByte(requestACK, sendACK) ==
    IF sendACK THEN 128 ELSE IF requestACK THEN 64 ELSE 0

\* radio.py:407-419  the list handed to spi.xfer2
FrameBytes(toAddress, own, buff, requestACK, sendACK) ==
    LET b == Truncate(buff)
    IN  <<Or0x80(REG_FIFO), BuffLen(b) + 3, toAddress, own,
          ControlByte(requestACK, sendACK)>> \o BuffBytes(b)

(* ------------------------------ the chip ------------------------------ *)

\* RSSI register values the chip may report: a quiet and a busy channel
RssiRegs == {200, 60}

\* radio.py:436-438  rssi = reg * -1; rssi = rssi >> 1
_readRSSI(reg) == (0 - reg) \div 2

\* radio.py:342-371  _setMode(newMode): nothing when newMode is the current
\* mode; else the OPMODE write, the high-power registers on entering TX or RX
\* (isRFM69HW), and self.mode = newMode.  The chip clears PacketSent when it
\* leaves TX.
_setMode(newMode) ==
    /\ mode' = newMode
    /\ packetSent' =
          IF newMode # mode /\ mode = RF69_MODE_TX THEN FALSE ELSE packetSent
    /\ regTestPA' =
          IF newMode = mode \/ ~isRFM69HW THEN regTestPA
          ELSE IF newMode = RF69_MODE_TX THEN "5D7C"
          ELSE IF newMode = RF69_MODE_RX THEN "5570"
          ELSE regTestPA

Goto(t, label) == pc' = [pc EXCEPT ![t] = label]

\* radio.py:283-293  begin_receive(), from label `at` of thread t on to
\* `next`: waits while intLock is set; restarts RX when a payload is pending
\* (the chip drops it); maps DIO0 to PayloadReady; _setMode(RX)
begin_receive(t, at, next) ==
    /\ pc[t] = at
    /\ ~intLock
    /\ payloadReady' = FALSE
    /\ fifo' = IF payloadReady THEN NoFrame ELSE fifo
    /\ dio0' = "01"
    /\ _setMode(RF69_MODE_RX)
    /\ Goto(t, next)
    /\ UNCHANGED <<cfgVars, intLock, sendLock, packets, acks, edge, regOcp, regPaLevel, gpio, rssiReg,
                   call, require_ack, attempt, timer, slept, result, snapshot, hdr,
                   logVars, histVars>>

\* radio.py:377-385  _canSend() read with the RSSI register holding `reg`:
\* "begin" (Standby: begin_receive, then True), "clear" (RX and a quiet
\* channel: Standby, True) or "busy" (False)
_canSend(reg) ==
    IF mode = RF69_MODE_STANDBY THEN "begin"
    ELSE IF mode = RF69_MODE_RX /\ _readRSSI(reg) < CSMA_LIMIT THEN "clear"
    ELSE "busy"

\* radio.py:192  time.time() - now < RF69_CSMA_LIMIT_S
CsmaTimeLeft == timer * TickMs < RF69_CSMA_LIMIT_MS

\* mutant: _send's loop waits for a clear channel however long it takes
CsmaExitClosed(t, answer) == answer # "busy"

\* radio.py:192-193 (send) and 333-334 (send_ack): one evaluation of the
\* loop condition.  Only _send's loop has the time limit.
CsmaExit(t, answer) ==
    IF t = "app" THEN answer # "busy" \/ ~CsmaTimeLeft ELSE answer # "busy"

CsmaPoll(t) ==
    /\ pc[t] = IF t = "app" THEN "csma" ELSE "ack_csma"
    /\ LET answer == _canSend(rssiReg)
          IN  /\ _setMode(IF answer = "clear" THEN RF69_MODE_STANDBY ELSE mode)
              /\ Goto(t, IF answer = "begin" THEN "cs_begin"
                         ELSE IF CsmaExit(t, answer) THEN "sf_standby"
                         ELSE pc[t])
    /\ UNCHANGED <<cfgVars, intLock, sendLock, packets, acks,
                   dio0, payloadReady, fifo, edge, regOcp, regPaLevel, gpio, rssiReg,
                   call, require_ack, attempt, timer, slept, result, snapshot, hdr,
                   logVars, histVars>>

\* radio.py:379-380  the begin_receive() of _canSend, which then returns True
CsmaBeginReceive(t) == begin_receive(t, "cs_begin", "sf_standby")

(* ----------------------------- _sendFrame ----------------------------- *)

\* radio.py:400-405  Standby, ModeReady (the chip reports it in Standby),
\* DIO0 mapped to PacketSent
SendFrameStandby(t) ==
    /\ pc[t] = "sf_standby"
    /\ _setMode(RF69_MODE_STANDBY)
    /\ dio0' = "00"
    /\ Goto(t, "sf_fifo")
    /\ UNCHANGED <<cfgVars, intLock, sendLock, packets, acks,
                   payloadReady, fifo, edge, regOcp, regPaLevel, gpio, rssiReg,
                   call, require_ack, attempt, timer, slept, result, snapshot, hdr,
                   logVars, histVars>>

\* radio.py:231  self._send(toAddress, buff, attempts>0): the requestACK
\* argument send passes down
RequestACKArg(attempts, requireAck) == attempts > 0

\* the frame thread t is sending: send's (radio.py:194, 231) or send_ack's
\* (radio.py:335, 571: to the sender, empty payload, sendACK)
FrameArgs(t) ==
    IF t = "app"
    THEN [toAddress |-> call.toAddress, buff |-> call.buff,
          requestACK |-> RequestACKArg(call.attempts, require_ack),
          sendACK |-> FALSE]
    ELSE [toAddress |-> hdr.sender, buff |-> NoBuff,
          requestACK |-> FALSE, sendACK |-> TRUE]

\* one entry of the log of burst writes: who wrote, the arguments of
\* _sendFrame, and the bytes written
Written(by, own, args) ==
    [by |-> by, args |-> args,
     frame |-> FrameBytes(args.toAddress, own, args.buff, args.requestACK,
                          args.sendACK)]

\* radio.py:407-422  the burst write of the frame, sendLock = True
SendFrameFifo(t) ==
    /\ pc[t] = "sf_fifo"
    /\ txLog' = Append(txLog, Written(t, address, FrameArgs(t)))
    /\ sendLock' = TRUE
    /\ Goto(t, "sf_tx")
    /\ UNCHANGED <<cfgVars, mode, intLock, packets, acks, chipVars,
                   call, require_ack, attempt, timer, slept, result, snapshot, hdr,
                   delivered, arrived, enqueued, histVars>>

\* radio.py:423
SendFrameTx(t) ==
    /\ pc[t] = "sf_tx"
    /\ _setMode(RF69_MODE_TX)
    /\ Goto(t, "sf_sent")
    /\ UNCHANGED <<cfgVars, intLock, sendLock, packets, acks,
                   dio0, payloadReady, fifo, edge, regOcp, regPaLevel, gpio, rssiReg,
                   call, require_ack, attempt, timer, slept, result, snapshot, hdr,
                   logVars, histVars>>

\* radio.py:424-426  the loop ends when the chip reports PacketSent
SendFrameSent(t) ==
    /\ pc[t] = "sf_sent"
    /\ packetSent
    /\ Goto(t, "sf_rx")
    /\ UNCHANGED <<cfgVars, drvVars, chipVars,
                   call, require_ack, attempt, timer, slept, result, snapshot, hdr,
                   logVars, histVars>>

\* radio.py:428, and the return to send (radio.py:233) or to the handler
\* (radio.py:573)
SendFrameRx(t) ==
    /\ pc[t] = "sf_rx"
    /\ _setMode(RF69_MODE_RX)
    /\ Goto(t, IF t = "app" THEN "sent" ELSE "h_end")
    /\ UNCHANGED <<cfgVars, intLock, sendLock, packets, acks,
                   dio0, payloadReady, fifo, edge, regOcp, regPaLevel, gpio, rssiReg,
                   call, require_ack, attempt, timer, slept, result, snapshot, hdr,
                   logVars, histVars>>

(* -------------------------- send, broadcast --------------------------- *)

Peer == 2
Stranger == 3
SendBuffs == {StrBuff(<<"A", "b">>)}
Waits == {w * TickMs : w \in 0 .. MaxWaitTicks}

\* the value the public call hands back: broadcast (radio.py:206) drops
\* send's value and returns None
Return(kind) ==
    /\ result' = IF call.op = "broadcast" THEN Returned("None", <<kind>>)
                 ELSE Returned(kind, <<>>)
    /\ Goto("app", "done")

\* radio.py:227-228
EffectiveRequireAck(attempts, requireAck) ==
    IF attempts > 1 THEN TRUE ELSE requireAck

\* radio.py:224-228  entry of send: the keyword arguments and their defaults
Enter(op, toAddress, buff, attempts, wait, requireAck) ==
    /\ pc["app"] = "idle"
    /\ call' = [op |-> op, toAddress |-> toAddress, buff |-> buff,
                attempts |-> attempts, wait |-> wait, require_ack |-> requireAck]
    /\ require_ack' = EffectiveRequireAck(attempts, requireAck)
    /\ attempt' = 0
    /\ ackSeen' = (toAddress \in acks)
    /\ ackAfterTx' = FALSE
    /\ Goto("app", "for")
    /\ UNCHANGED <<cfgVars, drvVars, chipVars, timer, slept, result, snapshot, hdr,
                   logVars, ackInWindow, ackBeforePoll, unconsumed>>

\* radio.py:208  send(toAddress, buff, attempts=, wait=, require_ack=)
send ==
    \E buff \in SendBuffs, attempts \in 0 .. MaxAttempts, wait \in Waits,
       requireAck \in BOOLEAN :
        Enter("send", Peer, buff, attempts, wait, requireAck)

\* radio.py:197-206  broadcast(buff): send(255, buff, require_ack=False)
broadcast ==
    \E buff \in SendBuffs :
        Enter("broadcast", broadcastAddress, buff, DefaultAttempts, DefaultWaitMs,
              FALSE)

\* radio.py:230, 243  for _ in range(0, attempts): ... ; return False
SendLoop ==
    /\ pc["app"] = "for"
    /\ IF attempt < call.attempts
       THEN Goto("app", "_send") /\ UNCHANGED result
       ELSE Return("False")
    /\ UNCHANGED <<cfgVars, drvVars, chipVars, call, require_ack, attempt, timer, slept,
                   snapshot, hdr, logVars, histVars>>

\* radio.py:190-191  _send: restart RX (the chip drops a pending payload),
\* now = time.time()
SendRestartRx ==
    /\ pc["app"] = "_send"
    /\ payloadReady' = FALSE
    /\ fifo' = NoFrame
    /\ timer' = 0
    /\ Goto("app", "csma")
    /\ UNCHANGED <<cfgVars, drvVars, dio0, packetSent, edge, regOcp, regPaLevel, regTestPA, gpio, rssiReg,
                   call, require_ack, attempt, slept, result, snapshot, hdr,
                   logVars, histVars>>

\* radio.py:233-236  after _send: None when no ack is required, else
\* sentTime = time.time()
SendSent ==
    /\ pc["app"] = "sent"
    /\ IF ~require_ack
       THEN Return("None") /\ UNCHANGED timer
       ELSE Goto("app", "ack_cond") /\ timer' = 0 /\ UNCHANGED result
    /\ UNCHANGED <<cfgVars, drvVars, chipVars, call, require_ack, attempt, slept,
                   snapshot, hdr, logVars, histVars>>

\* mutant: the window closes one poll interval early
InWaitWindowShort == timer * TickMs + TickMs < call.wait

\* radio.py:237  (time.time() - sentTime) * 1000 < wait_time
InWaitWindow == timer * TickMs < call.wait

\* radio.py:237  the loop condition: sleep, or go on to the next attempt
AckWaitCond ==
    /\ pc["app"] = "ack_cond"
    /\ IF InWaitWindow
       THEN Goto("app", "ack_sleep") /\ slept' = FALSE /\ UNCHANGED attempt
       ELSE Goto("app", "for") /\ attempt' = attempt + 1 /\ UNCHANGED slept
    /\ UNCHANGED <<cfgVars, drvVars, chipVars, call, require_ack, timer, result,
                   snapshot, hdr, logVars, histVars>>

\* mutant: the entry is found but not popped
ACKReceivedKeeps(fromNodeID) ==
    /\ acks' = acks
    /\ unconsumed' = unconsumed
    /\ IF fromNodeID \in acks
       THEN Return("True")
       ELSE Goto("app", "ack_cond") /\ UNCHANGED result

\* radio.py:387-391  _ACKReceived(fromNodeID): the entry is popped when there
_ACKReceived(fromNodeID) ==
    /\ acks' = acks \ {fromNodeID}
    /\ unconsumed' = [s \in DOMAIN unconsumed |->
                        IF s = fromNodeID THEN 0 ELSE unconsumed[s]]
    /\ IF fromNodeID \in acks
       THEN Return("True")
       ELSE Goto("app", "ack_cond") /\ UNCHANGED result

\* radio.py:239-241  time.sleep(.05) is over; poll the ack table
AckPoll ==
    /\ pc["app"] = "ack_sleep"
    /\ slept
    /\ _ACKReceived(call.toAddress)
    /\ UNCHANGED <<cfgVars, mode, intLock, sendLock, packets, chipVars,
                   call, require_ack, attempt, timer, slept, snapshot, hdr,
                   logVars, ackSeen, ackInWindow, ackBeforePoll, ackAfterTx>>

\* the clock: a timer advances while the loop that reads it is running and
\* has not run out; a sleep ends after a tick
Tick ==
    /\ \/ pc["app"] = "csma" /\ CsmaTimeLeft
       \/ pc["app"] \in {"ack_cond", "ack_sleep"} /\ InWaitWindow
       \/ ~slept
    /\ timer' = IF \/ pc["app"] = "csma" /\ CsmaTimeLeft
                   \/ pc["app"] \in {"ack_cond", "ack_sleep"} /\ InWaitWindow
                THEN timer + 1 ELSE timer
    /\ slept' = TRUE
    /\ UNCHANGED <<cfgVars, drvVars, chipVars, pc, call, require_ack, attempt, result,
                   snapshot, hdr, logVars, histVars>>

(* ------------------------ the interrupt handler ------------------------ *)

\* radio.py:523-526  intLock, sendLock, and the test that decides whether a
\* frame is read at all
HandlerStart ==
    /\ pc["irq"] = "idle"
    /\ edge
    /\ edge' = FALSE
    /\ intLock' = TRUE
    /\ sendLock' = FALSE
    /\ Goto("irq", IF mode = RF69_MODE_RX /\ payloadReady THEN "h_standby" ELSE "h_end")
    /\ UNCHANGED <<cfgVars, mode, packets, acks,
                   dio0, payloadReady, packetSent, fifo, regOcp, regPaLevel, regTestPA, gpio, rssiReg,
                   call, require_ack, attempt, timer, slept, result, snapshot, hdr,
                   logVars, histVars>>

\* radio.py:527
HandlerStandby ==
    /\ pc["irq"] = "h_standby"
    /\ _setMode(RF69_MODE_STANDBY)
    /\ Goto("irq", "h_header")
    /\ UNCHANGED <<cfgVars, intLock, sendLock, packets, acks,
                   dio0, payloadReady, fifo, edge, regOcp, regPaLevel, gpio, rssiReg,
                   call, require_ack, attempt, timer, slept, result, snapshot, hdr,
                   logVars, histVars>>

\* mutant: the filter without the broadcast address
AcceptedOwnOnly(target_id) == promiscuousMode \/ target_id = address

\* radio.py:536  the address filter
Accepted(target_id) ==
    promiscuousMode \/ target_id = address \/ target_id = RF69_BROADCAST_ADDR

\* radio.py:529-540  the header read, the clamp of the length, the filter; a
\* frame that is not accepted releases intLock and goes to the
\* begin_receive of line 539
HandlerHeader ==
    /\ pc["irq"] = "h_header"
    /\ hdr' = [length |-> Min(fifo.length, FifoCeiling), target |-> fifo.target,
               sender |-> fifo.sender, ctl |-> fifo.ctl]
    /\ IF Accepted(fifo.target)
       THEN Goto("irq", "h_payload") /\ UNCHANGED intLock
       ELSE Goto("irq", "h_ignore") /\ intLock' = FALSE
    /\ UNCHANGED <<cfgVars, mode, sendLock, packets, acks, chipVars,
                   call, require_ack, attempt, timer, slept, result, snapshot,
                   logVars, histVars>>

\* radio.py:542-547  the data_length bytes the second burst reads
ReadData(length, data) ==
    [i \in 1 .. (IF length > 3 THEN length - 3 ELSE 0) |->
        IF i <= Len(data) THEN data[i] ELSE 0]

\* radio.py:544
ack_requested(ctl) == BitSet(ctl, 64)

\* mutant: the ack-reply bit is looked for where the ack-request bit is
ack_receivedBit6(ctl) == BitSet(ctl, 64)

\* radio.py:543
ack_received(ctl) == BitSet(ctl, 128)

\* radio.py:542-566  the payload and RSSI reads (the FIFO is then empty and
\* PayloadReady clear), the ack record or the enqueue
HandlerPayload ==
    /\ pc["irq"] = "h_payload"
    /\ payloadReady' = FALSE
    /\ fifo' = NoFrame
    /\ LET reg == rssiReg IN
          IF ack_received(hdr.ctl)
          THEN /\ acks' = acks \cup {hdr.sender}
               /\ UNCHANGED <<packets, enqueued>>
          ELSE /\ packets' = Append(packets,
                      [target |-> hdr.target, sender |-> hdr.sender,
                       rssi |-> _readRSSI(reg),
                       data |-> ReadData(hdr.length, fifo.data),
                       id |-> enqueued + 1])
               /\ enqueued' = enqueued + 1
               /\ UNCHANGED acks
    /\ LET mine == /\ ack_received(hdr.ctl)
                   /\ pc["app"] \notin {"idle", "done"}
                   /\ call.op \in {"send", "broadcast"}
                   /\ hdr.sender = call.toAddress
       IN  /\ ackSeen' = (ackSeen \/ mine)
           /\ ackInWindow' =
                 (ackInWindow \/
                    (mine /\ pc["app"] \in {"ack_cond", "ack_sleep"} /\ InWaitWindow))
           /\ ackBeforePoll' = (ackBeforePoll \/ (mine /\ pc["app"] = "ack_sleep"))
           /\ ackAfterTx' =
                 (ackAfterTx \/
                    (mine /\ \E i \in 1 .. Len(txLog) : txLog[i].by = "app"))
    /\ unconsumed' = IF ack_received(hdr.ctl)
                     THEN [unconsumed EXCEPT ![hdr.sender] = @ + 1]
                     ELSE unconsumed
    /\ Goto("irq", "h_reply")
    /\ UNCHANGED <<cfgVars, mode, intLock, sendLock,
                   dio0, packetSent, edge, regOcp, regPaLevel, regTestPA, gpio, rssiReg,
                   call, require_ack, attempt, timer, slept, result, snapshot, hdr,
                   txLog, delivered, arrived>>

\* mutant: the handler keeps intLock while it replies
HandlerReplyKeepsLock ==
    /\ pc["irq"] = "h_reply"
    /\ IF ack_requested(hdr.ctl) /\ auto_acknowledge
       THEN Goto("irq", "ack_csma") /\ UNCHANGED intLock
       ELSE Goto("irq", "h_end") /\ UNCHANGED intLock
    /\ UNCHANGED <<cfgVars, mode, sendLock, packets, acks, chipVars,
                   call, require_ack, attempt, timer, slept, result, snapshot, hdr,
                   logVars, histVars>>

\* radio.py:569-571  the auto ack-reply: intLock is released, send_ack runs
HandlerReply ==
    /\ pc["irq"] = "h_reply"
    /\ IF ack_requested(hdr.ctl) /\ auto_acknowledge
       THEN Goto("irq", "ack_csma") /\ intLock' = FALSE
       ELSE Goto("irq", "h_end") /\ UNCHANGED intLock
    /\ UNCHANGED <<cfgVars, mode, sendLock, packets, acks, chipVars,
                   call, require_ack, attempt, timer, slept, result, snapshot, hdr,
                   logVars, histVars>>

\* radio.py:573
HandlerEnd ==
    /\ pc["irq"] = "h_end"
    /\ intLock' = FALSE
    /\ Goto("irq", "h_receive")
    /\ UNCHANGED <<cfgVars, mode, sendLock, packets, acks, chipVars,
                   call, require_ack, attempt, timer, slept, result, snapshot, hdr,
                   logVars, histVars>>

\* radio.py:539-540 (a frame ignored) and 574  begin_receive(), and the
\* handler returns
HandlerReceive ==
    \E at \in {"h_ignore", "h_receive"} : begin_receive("irq", at, "idle")

(* --------------------------- the environment --------------------------- *)

Node == 1
Elsewhere == 9

\* the chip, in RX with an empty FIFO, receives frame f: PayloadReady, and a
\* rising edge of DIO0 when it is mapped to PayloadReady (radio.py:292, 138)
FrameArrives(f) ==
    /\ mode = RF69_MODE_RX
    /\ ~payloadReady
    /\ arrived < MaxFrames
    /\ fifo' = f
    /\ payloadReady' = TRUE
    /\ edge' = (edge \/ dio0 = "01")
    /\ arrived' = arrived + 1
    /\ UNCHANGED <<cfgVars, drvVars, dio0, packetSent, regOcp, regPaLevel, regTestPA, gpio, rssiReg,
                   thrVars, txLog, delivered, enqueued, histVars>>

\* the channel: the RSSI register the chip reports follows the signal level
\* on the air, which the driver does not control (read at radio.py:434)
RssiChanges ==
    /\ \E reg \in RssiRegs \ {rssiReg} : rssiReg' = reg
    /\ UNCHANGED <<cfgVars, drvVars, dio0, payloadReady, packetSent, fifo, edge,
                   regOcp, regPaLevel, regTestPA, gpio, thrVars, logVars, histVars>>

\* the chip, in TX, has sent the FIFO: PacketSent, and a rising edge of DIO0
\* when it is mapped to PacketSent (radio.py:405, 424)
PacketSent ==
    /\ mode = RF69_MODE_TX
    /\ ~packetSent
    /\ packetSent' = TRUE
    /\ edge' = (edge \/ dio0 = "00")
    /\ UNCHANGED <<cfgVars, drvVars, dio0, payloadReady, fifo, regOcp, regPaLevel, regTestPA, gpio, rssiReg,
                   thrVars, logVars, histVars>>

AckReply(from) ==
    [length |-> 3, target |-> Node, sender |-> from, ctl |-> 128, data |-> <<>>]
AckRequest(from) ==
    [length |-> 4, target |-> Node, sender |-> from, ctl |-> 64, data |-> <<7>>]

\* what the air brings while a send is under way: an ack-reply, of the node
\* addressed or of another one
AckArrives(from) == arrived < MaxAcks /\ FrameArrives(AckReply(from))

(* ------------------- one send or broadcast, received frames ------------ *)

\* after __init__ and __enter__ (radio.py:39-62, 74-90, 145-150) of a
\* high-power module: over-current protection off and PA1, PA2 on
\* (_setHighPower(True), line 77), receiving, DIO0 mapped to PayloadReady,
\* nothing queued
InitDriver ==
    /\ address = Node
    /\ isRFM69HW = TRUE
    /\ mode = RF69_MODE_RX
    /\ intLock = FALSE
    /\ sendLock = FALSE
    /\ packets = <<>>
    /\ acks = {}
    /\ dio0 = "01"
    /\ payloadReady = FALSE
    /\ packetSent = FALSE
    /\ fifo = NoFrame
    /\ edge = FALSE
    /\ regOcp = "off"
    /\ regPaLevel = "PA1+PA2"
    /\ regTestPA = "5570"
    /\ rssiReg \in RssiRegs
    /\ gpio = "setup"
    /\ pc = [t \in Threads |-> "idle"]
    /\ call = NoCall
    /\ require_ack = FALSE
    /\ attempt = 0
    /\ timer = 0
    /\ slept = TRUE
    /\ result = NoResult
    /\ snapshot = <<>>
    /\ hdr = NoHdr
    /\ txLog = <<>>
    /\ delivered = <<>>
    /\ arrived = 0
    /\ enqueued = 0
    /\ ackSeen = FALSE
    /\ ackInWindow = FALSE
    /\ ackBeforePoll = FALSE
    /\ unconsumed = [s \in {Peer, Stranger} |-> 0]
    /\ ackAfterTx = FALSE
    /\ powerLevel = PowerCode(DefaultPower)
    /\ regPaPower = PowerCode(DefaultPower)
    /\ listen = ListenUnset
    /\ initLog = InitSteps
    /\ selected = {}

Init ==
    /\ InitDriver
    /\ promiscuousMode = FALSE
    /\ auto_acknowledge = TRUE

SendFrame(t) ==
    \/ SendFrameStandby(t)
    \/ SendFrameFifo(t)
    \/ SendFrameTx(t)
    \/ SendFrameSent(t)
    \/ SendFrameRx(t)

Handler ==
    \/ HandlerStart
    \/ HandlerStandby
    \/ HandlerHeader
    \/ HandlerPayload
    \/ HandlerReply
    \/ HandlerEnd
    \/ HandlerReceive

\* the steps of send after its entry
SendSteps ==
    \/ SendLoop
    \/ SendRestartRx
    \/ SendSent
    \/ AckWaitCond
    \/ AckPoll
    \/ CsmaPoll("app") \/ CsmaBeginReceive("app") \/ SendFrame("app")

\* the steps of the callback thread: the handler and its send_ack
IrqStep == Handler \/ CsmaPoll("irq") \/ CsmaBeginReceive("irq") \/ SendFrame("irq")

Next ==
    \/ send
    \/ broadcast
    \/ SendSteps
    \/ IrqStep
    \/ \E from \in {Peer, Stranger} : AckArrives(from)
    \/ PacketSent
    \/ RssiChanges
    \/ Tick

Spec == Init /\ [][Next]_vars

\* radio.py:208  send(toAddress, buff, attempts=n) with the default wait
sendDefaultWait ==
    \E buff \in SendBuffs, attempts \in 1 .. MaxAttempts :
        Enter("send", Peer, buff, attempts, DefaultWaitMs, TRUE)

\* send with the handler run by the chip's PacketSent edges and by ack-replies
\* of another node
NextCsma ==
    \/ sendDefaultWait
    \/ SendSteps
    \/ IrqStep
    \/ AckArrives(Stranger)
    \/ PacketSent
    \/ RssiChanges
    \/ Tick

\* both threads are scheduled again and again, the clock advances, and the
\* chip sends what it was given
FairSpec ==
    /\ Init /\ [][NextCsma]_vars
    /\ WF_vars(sendDefaultWait \/ SendSteps)
    /\ WF_vars(IrqStep)
    /\ WF_vars(Tick)
    /\ WF_vars(PacketSent)

(* ------------------------- the receive queue --------------------------- *)

\* the ids of a sequence of packets, in order
Ids(ps) == [i \in 1 .. Len(ps) |-> ps[i].id]

EnterQueueOp(op) ==
    /\ pc["app"] = "idle"
    /\ call' = [NoCall EXCEPT !.op = op]

\* radio.py:295-302  has_received_packet(): len(self.packets) > 0
has_received_packet ==
    /\ EnterQueueOp("has_received_packet")
    /\ result' = Returned(IF Len(packets) > 0 THEN "True" ELSE "False", <<>>)
    /\ Goto("app", "done")
    /\ UNCHANGED <<cfgVars, drvVars, chipVars, require_ack, attempt, timer, slept,
                   snapshot, hdr, logVars, histVars>>

\* radio.py:321, 324  get_packet(): the test of the length; False when empty
get_packet ==
    /\ EnterQueueOp("get_packet")
    /\ IF Len(packets) > 0
       THEN Goto("app", "gp_pop") /\ UNCHANGED result
       ELSE Goto("app", "done") /\ result' = Returned("False", <<>>)
    /\ UNCHANGED <<cfgVars, drvVars, chipVars, require_ack, attempt, timer, slept,
                   snapshot, hdr, logVars, histVars>>

\* radio.py:322  self.packets.pop(0): the packet taken and the list left
Pop0(ps) == [taken |-> Head(ps), left |-> Tail(ps)]

\* radio.py:322  return self.packets.pop(0)
GetPacketPop ==
    /\ pc["app"] = "gp_pop"
    /\ result' = Returned("packet", <<Pop0(packets).taken>>)
    /\ packets' = Pop0(packets).left
    /\ delivered' = Append(delivered, Pop0(packets).taken.id)
    /\ Goto("app", "done")
    /\ UNCHANGED <<cfgVars, mode, intLock, sendLock, acks, chipVars,
                   call, require_ack, attempt, timer, slept, snapshot, hdr,
                   txLog, arrived, enqueued, histVars>>

\* radio.py:311  get_packets(): packets = list(self.packets)
get_packets ==
    /\ EnterQueueOp("get_packets")
    /\ snapshot' = packets
    /\ Goto("app", "gps_clear")
    /\ UNCHANGED <<cfgVars, drvVars, chipVars, require_ack, attempt, timer, slept,
                   result, hdr, logVars, histVars>>

\* radio.py:312-313  self.packets = []; return packets
GetPacketsClear ==
    /\ pc["app"] = "gps_clear"
    /\ packets' = <<>>
    /\ result' = Returned("list", snapshot)
    /\ delivered' = delivered \o Ids(snapshot)
    /\ Goto("app", "done")
    /\ UNCHANGED <<cfgVars, mode, intLock, sendLock, acks, chipVars,
                   call, require_ack, attempt, timer, slept, snapshot, hdr,
                   txLog, arrived, enqueued, histVars>>

\* the application goes on to its next call
NextCall ==
    /\ pc["app"] = "done"
    /\ call' = NoCall
    /\ result' = NoResult
    /\ snapshot' = <<>>
    /\ Goto("app", "idle")
    /\ UNCHANGED <<cfgVars, drvVars, chipVars, require_ack, attempt, timer, slept,
                   hdr, logVars, histVars>>

\* what the air brings to a listening node: frames for this node with each
\* control byte, frames for another node and for all, plain and with the
\* control bits set, and one that declares a length above the FIFO's
RecvFrame(to, c, n) ==
    [length |-> n, target |-> to, sender |-> Peer, ctl |-> c, data |-> <<1, 2>>]
RecvFrames ==
    {RecvFrame(Node, c, 5) : c \in {0, 64, 128, 192}}
    \cup {RecvFrame(Elsewhere, c, 5) : c \in {0, 192}}
    \cup {RecvFrame(RF69_BROADCAST_ADDR, c, 5) : c \in {0, 64}}
    \cup {RecvFrame(Node, 0, 70)}

\* either setting of promiscuousMode and autoAcknowledge (radio.py:39, 46)
InitRecv ==
    /\ InitDriver
    /\ promiscuousMode \in BOOLEAN
    /\ auto_acknowledge \in BOOLEAN

\* the queue reads beside the handler; the channel keeps the level it has
\* at the start, quiet or busy
NextRecv ==
    \/ has_received_packet
    \/ get_packet
    \/ GetPacketPop
    \/ get_packets
    \/ GetPacketsClear
    \/ NextCall
    \/ IrqStep
    \/ \E f \in RecvFrames : FrameArrives(f)
    \/ PacketSent

SpecRecv == InitRecv /\ [][NextRecv]_vars

(* ------------------------- _sendFrame's bytes ------------------------- *)

\* payload lengths around the limits: empty, short, and about RF69_MAX_DATA_LEN
FrameLens ==
    {0, 1, 2} \cup (RF69_MAX_DATA_LEN - 1 .. RF69_MAX_DATA_LEN + MaxOver)

\* a str and a list of each length, no two neighbours alike
StrOfLen(n) ==
    StrBuff([i \in 1 .. n |->
                IF i % 3 = 1 THEN "A" ELSE IF i % 3 = 2 THEN "b" ELSE "0"])
ListOfLen(n) == ListBuff([i \in 1 .. n |-> i])
FrameBuffs == {StrOfLen(n) : n \in FrameLens} \cup {ListOfLen(n) : n \in FrameLens}

\* radio.py:398, 407-420  _sendFrame(toAddress, buff, requestACK, sendACK):
\* the burst write, for any arguments
EncodeFrame ==
    /\ txLog = <<>>
    /\ \E toAddress \in {0, Peer, broadcastAddress}, buff \in FrameBuffs,
          requestACK \in BOOLEAN, sendACK \in BOOLEAN :
          txLog' = <<Written("app", address,
                             [toAddress |-> toAddress, buff |-> buff,
                              requestACK |-> requestACK, sendACK |-> sendACK])>>
    /\ UNCHANGED <<cfgVars, drvVars, chipVars, thrVars, delivered, arrived, enqueued,
                   histVars>>

SpecFrame == InitRecv /\ [][EncodeFrame]_vars

(* --------------------------- listen timing ---------------------------- *)

\* durations in microseconds: none, below and about half a fine unit, whole
\* and half units, and the last coefficient of each resolution with the
\* durations next to its upper edge
Durations ==
    {0, 10, 31, 32, 33, 64, 96, 97, 20500,
     16320, 16352, 16353, 1045500, 1047550, 1047551,
     66810000, 66941000, 66941001}

\* radio.py:621  listenModeSetDurations(rxDuration, idleDuration)
listenModeSetDurations ==
    /\ pc["app"] = "idle"
    /\ \E rxDuration \in Durations, idleDuration \in Durations :
          LET done == SetDurations(listen, rxDuration, idleDuration)
          IN  /\ call' = [NoCall EXCEPT !.op = "listenModeSetDurations",
                                        !.args = <<rxDuration, idleDuration>>]
              /\ listen' = done.timing
              /\ result' = done.out
    /\ Goto("app", "done")
    /\ UNCHANGED <<address, promiscuousMode, auto_acknowledge, isRFM69HW,
                   powerLevel, regPaPower, initLog, selected, drvVars, chipVars,
                   require_ack, attempt, timer, slept, snapshot, hdr,
                   logVars, histVars>>

NextListen == listenModeSetDurations \/ NextCall

SpecListen == Init /\ [][NextListen]_vars

(* ----------------------------- power level ---------------------------- *)

\* a | b on the low w bits, two's complement for a negative operand
RECURSIVE OrBits(_, _, _)
OrBits(a, b, w) ==
    IF w = 0 THEN 0
    ELSE (IF a % 2 = 1 \/ b % 2 = 1 THEN 1 ELSE 0)
            + 2 * OrBits(a \div 2, b \div 2, w - 1)

\* the amplifier bits of REG_PALEVEL (bits 7 to 5: PA0, PA1, PA2)
PaBits(name) ==
    CASE name = "PA0" -> 128
      [] name = "PA1+PA2" -> 96
      [] name = "PA0+PA1+PA2" -> 224
PaName(bits) ==
    CASE bits = 128 -> "PA0"
      [] bits = 96 -> "PA1+PA2"
      [] bits = 224 -> "PA0+PA1+PA2"

Percents == (0 - PercentMargin) .. (100 + PercentMargin)

\* radio.py:177-186  set_power_level(percent): the assert passes for every
\* int; self.powerLevel is set; REG_PALEVEL gets (its value & 0xE0) |
\* self.powerLevel.  A negative value reaches spi.xfer, which either refuses
\* it or sends its low byte.
set_power_level ==
    /\ pc["app"] = "idle"
    /\ \E percent \in Percents, refused \in BOOLEAN :
          LET code == PowerCode(percent)
              byte == OrBits(PaBits(regPaLevel), code, 8)
          IN  /\ code >= 0 => ~refused
              /\ call' = [NoCall EXCEPT !.op = "set_power_level", !.args = <<percent>>]
              /\ powerLevel' = code
              /\ IF refused
                 THEN /\ result' = Returned("error", <<>>)
                      /\ UNCHANGED <<regPaLevel, regPaPower>>
                 ELSE /\ result' = Returned("None", <<>>)
                      /\ regPaLevel' = PaName((byte \div 32) * 32)
                      /\ regPaPower' = byte % 32
    /\ Goto("app", "done")
    /\ UNCHANGED <<address, promiscuousMode, auto_acknowledge, isRFM69HW, listen,
                   initLog, selected, drvVars, dio0, payloadReady, packetSent, fifo, edge, regOcp,
                   regTestPA, gpio, rssiReg,
                   require_ack, attempt, timer, slept, snapshot, hdr,
                   logVars, histVars>>

NextPower == set_power_level \/ NextCall

SpecPower == Init /\ [][NextPower]_vars

(* ------------------------------ shutdown ------------------------------ *)

\* radio.py:474  the name powerLevel, read as a local or a global: radio.py
\* binds none (line 185 sets the attribute self.powerLevel), so the read
\* raises NameError
powerLevelBound == FALSE

\* radio.py:466-474  _setHighPower(onOff): the REG_OCP write, then the
\* REG_PALEVEL write, whose argument the else branch cannot evaluate
_setHighPower(onOff) ==
    [ocp |-> IF onOff THEN "off" ELSE "on",
     paLevel |-> IF onOff THEN "PA1+PA2"
                 ELSE IF powerLevelBound THEN "PA0" ELSE regPaLevel,
     raised |-> ~onOff /\ ~powerLevelBound]

\* radio.py:162-164  sleep()
sleep ==
    /\ pc["app"] = "idle"
    /\ _setMode(RF69_MODE_SLEEP)
    /\ UNCHANGED <<cfgVars, intLock, sendLock, packets, acks,
                   dio0, payloadReady, fifo, edge, regOcp, regPaLevel, gpio, rssiReg,
                   thrVars, logVars, histVars>>

\* radio.py:283-293  begin_receive() called by the application
receive == begin_receive("app", "idle", "idle")

\* radio.py:152-154, 484-491  __exit__: _shutdown(), that is
\* _setHighPower(False), sleep(), GPIO.cleanup(); an exception of the first
\* leaves the other two undone and comes out of __exit__
_shutdown ==
    /\ pc["app"] = "idle"
    /\ LET hp == _setHighPower(FALSE)
       IN  /\ regOcp' = hp.ocp
           /\ regPaLevel' = hp.paLevel
           /\ IF hp.raised
              THEN /\ result' = Returned("NameError", <<>>)
                   /\ UNCHANGED <<mode, packetSent, regTestPA, gpio>>
              ELSE /\ result' = Returned("None", <<>>)
                   /\ _setMode(RF69_MODE_SLEEP)
                   /\ gpio' = "cleaned"
    /\ call' = [NoCall EXCEPT !.op = "__exit__"]
    /\ Goto("app", "exited")
    /\ UNCHANGED <<cfgVars, intLock, sendLock, packets, acks,
                   dio0, payloadReady, fifo, edge, rssiReg,
                   require_ack, attempt, timer, slept, snapshot, hdr,
                   logVars, histVars>>

NextShutdown ==
    \/ sleep
    \/ receive
    \/ _shutdown
    \/ IrqStep
    \/ \E f \in RecvFrames : FrameArrives(f)
    \/ PacketSent
    \/ RssiChanges

SpecShutdown == InitRecv /\ [][NextShutdown]_vars

(* ---------------------------- construction --------------------------- *)

\* radio.py:39-62  Radio(...) up to _init_gpio: the keyword arguments are
\* stored, nothing is queued, self.mode is "", no identity yet; the chip is
\* as it powers up
InitNew ==
    /\ address = 0
    /\ promiscuousMode \in BOOLEAN
    /\ auto_acknowledge = TRUE
    /\ isRFM69HW \in BOOLEAN
    /\ mode = ""
    /\ intLock = FALSE /\ sendLock = FALSE
    /\ packets = <<>> /\ acks = {}
    /\ dio0 = "00" /\ payloadReady = FALSE /\ packetSent = FALSE
    /\ fifo = NoFrame /\ edge = FALSE
    /\ regOcp = "on" /\ regPaLevel = "PA0" /\ regPaPower = 31
    /\ regTestPA = "5570" /\ rssiReg \in RssiRegs /\ gpio = "setup"
    /\ pc = [t \in Threads |-> IF t = "app" THEN "new" ELSE "idle"]
    /\ call = NoCall /\ require_ack = FALSE /\ attempt = 0
    /\ timer = 0 /\ slept = TRUE /\ result = NoResult
    /\ snapshot = <<>> /\ hdr = NoHdr
    /\ txLog = <<>> /\ delivered = <<>> /\ arrived = 0 /\ enqueued = 0
    /\ ackSeen = FALSE /\ ackInWindow = FALSE /\ ackBeforePoll = FALSE
    /\ unconsumed = [s \in {Peer, Stranger} |-> 0]
    /\ ackAfterTx = FALSE
    /\ powerLevel = 0 /\ listen = ListenUnset /\ initLog = <<>>
    /\ selected = {}

\* one step of construction: the log grows by `steps`, the thread goes to
\* `next`; the rest is as the step says
InitStep(at, steps, next) ==
    /\ pc["app"] = at
    /\ initLog' = initLog \o steps
    /\ Goto("app", next)
    /\ UNCHANGED <<promiscuousMode, auto_acknowledge, isRFM69HW, listen, selected,
                   intLock, sendLock, packets, acks,
                   dio0, payloadReady, fifo, edge, gpio, rssiReg,
                   require_ack, attempt, timer, slept, snapshot, hdr,
                   logVars, histVars>>

\* radio.py:69, 112-118  _initialize calls _reset_radio: the hard reset,
\* when a reset pin is configured (resetPin = 29 by default, line 42)
HardReset ==
    \E rstPin \in {0, 29}, power \in {0, 70, 100} :
        /\ InitStep("new", IF rstPin # 0 THEN <<"hard_reset">> ELSE <<>>, "i_syncAA")
        /\ call' = [NoCall EXCEPT !.op = "__init__", !.args = <<rstPin, power>>]
        /\ UNCHANGED <<address, mode, packetSent, regOcp, regPaLevel, regPaPower,
                       regTestPA, powerLevel, result>>

\* mutant: a timed-out wait is taken for a success
AfterTimeoutGoesOn == "i_identity"

\* where construction goes when a wait of _initialize has timed out
\* (radio.py:75, 122-123, 127-128, 82-83: return False, lines 70-71 skipped)
AfterTimeout == "done"

\* radio.py:119-129  the sync handshake: the register reads back 0xAA, then
\* 0x55, or 0.1 s pass
SyncHandshake ==
    \E ok \in BOOLEAN :
        \/ /\ InitStep("i_syncAA", IF ok THEN <<>> ELSE <<"timeout">>,
                        IF ok THEN "i_sync55" ELSE AfterTimeout)
           /\ result' = IF ok THEN result ELSE Returned("False", <<>>)
           /\ UNCHANGED <<address, mode, packetSent, regOcp, regPaLevel, regPaPower,
                          regTestPA, powerLevel, call>>
        \/ /\ InitStep("i_sync55", IF ok THEN <<"sync">> ELSE <<"timeout">>,
                        IF ok THEN "i_config" ELSE AfterTimeout)
           /\ result' = IF ok THEN result ELSE Returned("False", <<>>)
           /\ UNCHANGED <<address, mode, packetSent, regOcp, regPaLevel, regPaPower,
                          regTestPA, powerLevel, call>>

\* radio.py:77-78  the configuration table, then _setHighPower(isRFM69HW),
\* whose exception leaves the constructor
ConfigAndHighPower ==
    LET hp == _setHighPower(isRFM69HW)
    IN  /\ InitStep("i_config",
                    IF hp.raised THEN <<"config">> ELSE <<"config", "high_power">>,
                    IF hp.raised THEN "done" ELSE "i_ready")
        /\ regOcp' = hp.ocp
        /\ regPaLevel' = hp.paLevel
        /\ result' = IF hp.raised THEN Returned("NameError", <<>>) ELSE result
        /\ UNCHANGED <<address, mode, packetSent, regPaPower, regTestPA, powerLevel,
                       call>>

\* radio.py:80-83  the wait for ModeReady, 1 s at most
WaitModeReady ==
    \E ok \in BOOLEAN :
        /\ InitStep("i_ready", IF ok THEN <<"mode_ready">> ELSE <<"timeout">>,
                    IF ok THEN "i_identity" ELSE AfterTimeout)
        /\ result' = IF ok THEN result ELSE Returned("False", <<>>)
        /\ UNCHANGED <<address, mode, packetSent, regOcp, regPaLevel, regPaPower,
                       regTestPA, powerLevel, call>>

\* radio.py:85-90  self.address = nodeID, _init_interrupt(), return True
AssignIdentity ==
    /\ InitStep("i_identity", <<"identity", "interrupt">>, "i_encrypt")
    /\ address' = Node
    /\ UNCHANGED <<mode, packetSent, regOcp, regPaLevel, regPaPower, regTestPA,
                   powerLevel, call, result>>

\* radio.py:70, 440-450  _encrypt(0): Standby, AES off
Encrypt ==
    /\ InitStep("i_encrypt", <<"encryption">>, "i_power")
    /\ _setMode(RF69_MODE_STANDBY)
    /\ UNCHANGED <<address, regOcp, regPaLevel, regPaPower, powerLevel, call, result>>

\* radio.py:71, 185-186  set_power_level(power); the constructor returns
InitPower ==
    /\ InitStep("i_power", <<"power">>, "done")
    /\ powerLevel' = PowerCode(call.args[2])
    /\ regPaPower' = PowerCode(call.args[2])
    /\ result' = Returned("Radio", <<>>)
    /\ UNCHANGED <<address, mode, packetSent, regOcp, regPaLevel, regTestPA, call>>

NextInit ==
    \/ HardReset
    \/ SyncHandshake
    \/ ConfigAndHighPower
    \/ WaitModeReady
    \/ AssignIdentity
    \/ Encrypt
    \/ InitPower
    \/ RssiChanges

SpecInit == InitNew /\ [][NextInit]_vars

(* ------------------------------- the bus ------------------------------ *)

\* radio.py:452-456  _readReg(addr), one step at a time: select(), the
\* transfer, unselect().  The application does it at line 269
\* (calibrate_radio polls REG_OSC1); the handler, entered on an edge (lines
\* 523-524), at line 526 when self.mode is RX.
ReadRegSelect(t) ==
    /\ pc[t] = "idle"
    /\ t = "irq" => edge
    /\ edge' = IF t = "irq" THEN FALSE ELSE edge
    /\ intLock' = IF t = "irq" THEN TRUE ELSE intLock
    /\ sendLock' = IF t = "irq" THEN FALSE ELSE sendLock
    /\ IF t = "irq" /\ mode # RF69_MODE_RX
       THEN Goto(t, "h_end") /\ UNCHANGED selected
       ELSE Goto(t, "rr_xfer") /\ selected' = selected \cup {t}
    /\ UNCHANGED <<address, promiscuousMode, auto_acknowledge, isRFM69HW,
                   powerLevel, regPaPower, listen, initLog,
                   mode, packets, acks,
                   dio0, payloadReady, packetSent, fifo, regOcp, regPaLevel,
                   regTestPA, gpio, rssiReg,
                   call, require_ack, attempt, timer, slept, result, snapshot, hdr,
                   logVars, histVars>>

\* radio.py:454  self.spi.xfer([addr & 0x7F, 0])
ReadRegXfer(t) ==
    /\ pc[t] = "rr_xfer"
    /\ Goto(t, "rr_unselect")
    /\ UNCHANGED <<cfgVars, drvVars, chipVars,
                   call, require_ack, attempt, timer, slept, result, snapshot, hdr,
                   logVars, histVars>>

\* radio.py:455-456  unselect(); return regval: the application's call is
\* over, the handler goes on by the PayloadReady flag it has read
ReadRegUnselect(t) ==
    /\ pc[t] = "rr_unselect"
    /\ selected' = selected \ {t}
    /\ Goto(t, IF t = "app" THEN "idle"
               ELSE IF payloadReady THEN "h_standby" ELSE "h_end")
    /\ UNCHANGED <<address, promiscuousMode, auto_acknowledge, isRFM69HW,
                   powerLevel, regPaPower, listen, initLog,
                   drvVars, chipVars,
                   call, require_ack, attempt, timer, slept, result, snapshot, hdr,
                   logVars, histVars>>

NextBus ==
    \/ \E t \in Threads : ReadRegSelect(t) \/ ReadRegXfer(t) \/ ReadRegUnselect(t)
    \/ HandlerStandby \/ HandlerHeader \/ HandlerPayload \/ HandlerReply
    \/ HandlerEnd \/ HandlerReceive
    \/ CsmaPoll("irq") \/ CsmaBeginReceive("irq") \/ SendFrame("irq")
    \/ \E f \in RecvFrames : FrameArrives(f)
    \/ PacketSent

SpecBus == InitRecv /\ [][NextBus]_vars

(* ======================= the claims, send side ======================== *)

\* the frames send itself has written to the FIFO, oldest first
AppFrames ==
    LET byApp(e) == e.by = "app"
    IN  SelectSeq(txLog, byApp)

Sending == call.op \in {"send", "broadcast"}

\* the step on which the public call returns
Returns == pc["app"] # "done" /\ pc'["app"] = "done"

C3_BroadcastOneFrameNoAck ==
    call.op = "broadcast"
    => /\ pc["app"] \notin {"ack_cond", "ack_sleep"}
       /\ Len(AppFrames) <= 1
       /\ \A i \in 1 .. Len(AppFrames) :
             /\ AppFrames[i].frame[3] = 255
             /\ ~BitSet(AppFrames[i].frame[5], 64)
       /\ pc["app"] = "done" => (Len(AppFrames) = 1 /\ result.kind = "None")

\* C4 (as claimed): every frame send writes has the ack-request bit set exactly
\* when attempts > 1 or the caller required an acknowledgement
C4_AckBitIffRequired ==
    Sending
    => /\ pc["app"] # "idle" => (require_ack <=> (call.attempts > 1 \/ call.require_ack))
       /\ \A i \in 1 .. Len(AppFrames) :
             BitSet(AppFrames[i].frame[5], 64)
                <=> (call.attempts > 1 \/ call.require_ack)

\* C8: send's CSMA gate is fail-open: it lets send through when _canSend
\* answers True (Standby, or RX with the channel quiet) or when the CSMA time
\* limit has run out, not before; and a send that has reached the gate goes
\* on to write its frame to the FIFO, however busy the channel stays
C8_CsmaFailOpen ==
    /\ [][(pc["app"] = "csma" /\ pc'["app"] # "csma")
             => \/ mode = "Standby"
                \/ mode = "RX" /\ (0 - rssiReg) \div 2 < -90
                \/ timer * TickMs >= 100]_vars
    /\ (pc["app"] = "csma") ~> (pc["app"] = "sf_tx")

\* C8 witness: the gate has opened on the time limit: the radio is still in
\* RX (no clear channel was seen) and the limit has run out
C8_Witness ==
    /\ pc["app"] = "sf_standby"
    /\ mode = RF69_MODE_RX
    /\ rssiReg = 60
    /\ timer * TickMs >= RF69_CSMA_LIMIT_MS

(* ====================== the claims, receive side ====================== *)

\* the filter as the claim words it, on a target address
ForThisNode(target) == promiscuousMode \/ target = address \/ target = 255

\* C5: the handler accepts a frame exactly when promiscuous mode is on or the
\* frame's target is this node's address or 255; an accepted data frame is
\* queued; a frame not accepted changes neither the queue nor the ack set,
\* starts no ack-reply, and ends with the radio back in RX
C5_AddressFilter ==
    [][/\ (pc["irq"] = "h_header" /\ pc'["irq"] # "h_header")
          => /\ pc'["irq"] = IF ForThisNode(fifo.target) THEN "h_payload"
                             ELSE "h_ignore"
             /\ UNCHANGED <<packets, acks, txLog>>
       /\ (pc["irq"] = "h_payload" /\ pc'["irq"] # "h_payload"
              /\ ~BitSet(hdr.ctl, 128))
          => (Len(packets') = Len(packets) + 1
                 /\ packets'[Len(packets')].target = hdr.target)
       /\ (pc["irq"] = "h_ignore" /\ pc'["irq"] # "h_ignore")
          => /\ ~ForThisNode(hdr.target)
             /\ pc'["irq"] = "idle"
             /\ mode' = RF69_MODE_RX
             /\ UNCHANGED <<packets, acks, txLog>>]_vars

\* C5 witness: with promiscuous mode off, a frame for another node has been
\* through the handler: nothing was queued, nothing sent, the radio listens
C5_Witness ==
    /\ ~promiscuousMode
    /\ arrived = 1
    /\ hdr.target = Elsewhere
    /\ pc["irq"] = "idle"
    /\ mode = RF69_MODE_RX
    /\ enqueued = 0
    /\ acks = {}
    /\ txLog = <<>>

\* the ids the application has been handed, and those it can still get
Handed == {delivered[i] : i \in 1 .. Len(delivered)}
Held ==
    {packets[i].id : i \in 1 .. Len(packets)}
    \cup (IF pc["app"] = "gps_clear"
          THEN {snapshot[i].id : i \in 1 .. Len(snapshot)} ELSE {})

\* C6 (as claimed): every packet the handler has queued is either still to be
\* had or has been returned, and none has been returned twice
C6_EachPacketExactlyOnce ==
    /\ \A id \in 1 .. enqueued : id \in Handed \cup Held
    /\ \A i, j \in 1 .. Len(delivered) : delivered[i] = delivered[j] => i = j

\* C7 (as claimed): get_packet hands back the oldest packet and leaves the
\* rest, or False and the queue as it was when empty; get_packets hands back
\* all that is queued when it empties the queue, oldest first;
\* has_received_packet tells whether the queue is non-empty; the queue is in
\* arrival order
C7_FifoReads ==
    [][/\ \A i, j \in 1 .. Len(packets') : i < j => packets'[i].id < packets'[j].id
       /\ (pc["app"] = "gp_pop" /\ pc'["app"] = "done")
          => /\ result' = [kind |-> "packet", val |-> <<packets[1]>>]
             /\ packets' = SubSeq(packets, 2, Len(packets))
       /\ (pc["app"] = "idle" /\ call'.op = "get_packet" /\ packets = <<>>)
          => (pc'["app"] = "done" /\ result'.kind = "False" /\ packets' = <<>>)
       /\ (pc["app"] = "gps_clear" /\ pc'["app"] = "done")
          => /\ result' = [kind |-> "list", val |-> packets]
             /\ packets' = <<>>
       /\ (pc["app"] = "idle" /\ call'.op = "has_received_packet")
          => /\ pc'["app"] = "done"
             /\ (result'.kind = "True") <=> (packets # <<>>)
             /\ result'.kind \in {"True", "False"}
             /\ UNCHANGED <<packets, acks, mode>>]_vars

(* ========================= the claims, shutdown ======================= *)

\* C9 (as claimed): shutdown, from whatever mode, ends with the high-power
\* amplifier state torn down (over-current protection on, PA0 only), the
\* mode Sleep and the pins released
C9_ShutdownCompletes ==
    [][(pc["app"] # "exited" /\ pc'["app"] = "exited")
          => /\ result'.kind = "None"
             /\ regOcp' = "on"
             /\ regPaLevel' = "PA0"
             /\ mode' = RF69_MODE_SLEEP
             /\ gpio' = "cleaned"]_vars

(* ======================= the claims, frame bytes ====================== *)

\* the payload as bytes, by the kind of the buffer
RawBytes(buff) ==
    IF buff.kind = "str"
    THEN [i \in 1 .. Len(buff.chars) |-> Ord(buff.chars[i])]
    ELSE buff.ints

\* C10: every frame written is [0x80, L + 3, toAddress, own address, control
\* byte] and then the first L payload bytes, L the lesser of the payload's
\* length and 61; the control byte is 0x80 for an ack-reply, else 0x40 with
\* an ack requested, else 0, never with both bits
C10_FrameBytes ==
    \A k \in 1 .. Len(txLog) :
        LET e == txLog[k]
            raw == RawBytes(e.args.buff)
            L == IF Len(raw) < 61 THEN Len(raw) ELSE 61
            ctl == IF e.args.sendACK THEN 128
                   ELSE IF e.args.requestACK THEN 64 ELSE 0
        IN  /\ e.frame = <<128, L + 3, e.args.toAddress, address, ctl>>
                             \o [i \in 1 .. L |-> raw[i]]
            /\ ~(BitSet(e.frame[5], 128) /\ BitSet(e.frame[5], 64))

\* C10 witness: a payload two bytes above the limit went out as 61 bytes
\* under a length field of 64
C10_Witness ==
    /\ Len(txLog) = 1
    /\ Len(RawBytes(txLog[1].args.buff)) = 63
    /\ txLog[1].frame[2] = 64
    /\ Len(txLog[1].frame) = 66
    /\ txLog[1].frame[66] = 61

(* ======================= the claims, listen timing ==================== *)

\* the nearest coefficient of a duration at a unit, as the claim words it:
\* the floor, or the floor plus one when that is strictly closer
NearestCoef(duration, unit) ==
    LET f == duration \div unit
    IN  IF (f + 1) * unit - duration < duration - f * unit THEN f + 1 ELSE f

\* the first unit of 64, 4100, 262000 whose nearest coefficient is in
\* 0 .. 255; 0 when there is none
FirstUnit(duration) ==
    IF NearestCoef(duration, 64) \in 0 .. 255 THEN 64
    ELSE IF NearestCoef(duration, 4100) \in 0 .. 255 THEN 4100
    ELSE IF NearestCoef(duration, 262000) \in 0 .. 255 THEN 262000
    ELSE 0

\* the step on which listenModeSetDurations runs
SetsDurations == pc["app"] = "idle" /\ call'.op = "listenModeSetDurations"

\* the unit of a resolution code of either list
UnitOf(code) ==
    IF code \in {16, 64} THEN 64
    ELSE IF code \in {32, 128} THEN 4100
    ELSE IF code \in {48, 192} THEN 262000
    ELSE 0

\* C11 (as claimed): whenever both durations have a resolution,
\* listenModeSetDurations accepts them and leaves, for each, the first
\* resolution of 64, 4100, 262000 whose nearest coefficient is in 0 .. 255,
\* with that coefficient, a coefficient of 0 included
C11_FirstResolutionNearestCoef ==
    [][(SetsDurations /\ FirstUnit(call'.args[1]) # 0
                      /\ FirstUnit(call'.args[2]) # 0)
          => /\ result'.kind = "tuple"
             /\ UnitOf(listen'.rxResolution) = FirstUnit(call'.args[1])
             /\ listen'.rxCoef = NearestCoef(call'.args[1], FirstUnit(call'.args[1]))
             /\ UnitOf(listen'.idleResolution) = FirstUnit(call'.args[2])
             /\ listen'.idleCoef
                   = NearestCoef(call'.args[2], FirstUnit(call'.args[2]))]_vars

\* C11 without coefficient 0: the same, for durations whose coefficient is
\* at least 1
C11_FromCoefOne ==
    [][(SetsDurations /\ FirstUnit(call'.args[1]) # 0
                      /\ FirstUnit(call'.args[2]) # 0
                      /\ NearestCoef(call'.args[1], 64) # 0
                      /\ NearestCoef(call'.args[2], 64) # 0)
          => /\ result'.kind = "tuple"
             /\ UnitOf(listen'.rxResolution) = FirstUnit(call'.args[1])
             /\ listen'.rxCoef = NearestCoef(call'.args[1], FirstUnit(call'.args[1]))
             /\ UnitOf(listen'.idleResolution) = FirstUnit(call'.args[2])
             /\ listen'.idleCoef
                   = NearestCoef(call'.args[2], FirstUnit(call'.args[2]))]_vars

\* C12 (as claimed): when a duration has no resolution, that is its
\* coefficient is above 255 at each of the three, listenModeSetDurations
\* returns (None, None)
C12_UnrepresentableReported ==
    [][(SetsDurations /\ (FirstUnit(call'.args[1]) = 0
                             \/ FirstUnit(call'.args[2]) = 0))
          => result'.kind = "None"]_vars

(* ======================== the claims, power level ===================== *)

\* the step on which set_power_level(percent) runs
SetsPower == pc["app"] = "idle" /\ call'.op = "set_power_level"

\* C13 (as claimed): for percent in 0 .. 100 set_power_level stores
\* round(31 * percent / 100), which is in 0 .. 31, and sets the power field of
\* the register to it, the amplifier bits kept; every other percent is
\* rejected with an error, the stored level and the register as they were
C13_PowerLevelInRange ==
    [][SetsPower
          => IF call'.args[1] \in 0 .. 100
             THEN /\ 100 * powerLevel' - 50 <= 31 * call'.args[1]
                  /\ 31 * call'.args[1] <= 100 * powerLevel' + 50
                  /\ powerLevel' \in 0 .. 31
                  /\ regPaPower' = powerLevel'
                  /\ regPaLevel' = regPaLevel
                  /\ result'.kind = "None"
             ELSE /\ result'.kind = "error"
                  /\ UNCHANGED <<powerLevel, regPaPower, regPaLevel>>]_vars

\* C13 within the range: the first half of the claim alone
C13_InRangeOnly ==
    [][(SetsPower /\ call'.args[1] \in 0 .. 100)
          => /\ 100 * powerLevel' - 50 <= 31 * call'.args[1]
             /\ 31 * call'.args[1] <= 100 * powerLevel' + 50
             /\ powerLevel' \in 0 .. 31
             /\ regPaPower' = powerLevel'
             /\ regPaLevel' = regPaLevel
             /\ result'.kind = "None"]_vars

(* ======================= the claims, construction ===================== *)

\* the steps that must not happen unless initialization succeeds
Guarded == {"encryption", "power", "identity", "interrupt"}

\* the steps in the log, as a set
Logged == {initLog[i] : i \in 1 .. Len(initLog)}

\* C14 (as claimed): after a timeout of initialization none of encryption,
\* power level, identity and interrupt registration happens; when one of
\* them has happened, the log starts with hard reset, sync handshake,
\* configuration table, mode-ready wait, in that order
C14_InitAllOrNothing ==
    /\ "timeout" \in Logged => Logged \cap Guarded = {}
    /\ Logged \cap Guarded # {}
          => LET before == SelectSeq(initLog, LAMBDA x : x \notin Guarded
                                                         /\ x # "high_power")
             IN  before = <<"hard_reset", "sync", "config", "mode_ready">>

\* C14 (amended): the same, the hard reset being part of the order only
\* when a reset pin is configured
C14_InitAllOrNothingResetPin ==
    /\ "timeout" \in Logged => (Logged \cap Guarded = {} /\ address = 0)
    /\ (pc["app"] = "done" /\ result.kind = "False") => "timeout" \in Logged
    /\ Logged \cap Guarded # {}
          => \E k \in 1 .. Len(initLog) :
                /\ initLog[k] = "identity"
                /\ \A i \in 1 .. k - 1 : initLog[i] \notin Guarded
                /\ SubSeq(initLog, 1, k - 1)
                      = (IF call.args[1] # 0 THEN <<"hard_reset">> ELSE <<>>)
                           \o <<"sync", "config", "high_power", "mode_ready">>

\* C14 witness: a construction without reset pin has succeeded
C14_Witness ==
    /\ pc["app"] = "done"
    /\ result.kind = "Radio"
    /\ call.args[1] = 0
    /\ initLog = <<"sync", "config", "high_power", "mode_ready", "identity",
                   "interrupt", "encryption", "power">>

(* =========================== the claims, bus ========================== *)

\* C15 (as claimed): never are both threads between select() and unselect()
C15_OneBusTransaction == Cardinality(selected) <= 1

(* ====================== the claims, re-entrancy lock ================== *)

\* where the handler is while it sends its ack-reply (send_ack)
InSendAck ==
    pc["irq"] \in {"ack_csma", "cs_begin", "sf_standby", "sf_fifo", "sf_tx",
                   "sf_sent", "sf_rx"}

\* C16 (as claimed): intLock, once taken, is released only at the last step
\* of the handler (or where an ignored frame ends it), the auto ack-reply
\* being sent under it
C16_LockHeldToTheEnd ==
    [][(intLock /\ ~intLock')
          => \/ pc["irq"] = "h_end" /\ pc'["irq"] = "h_receive"
             \/ pc["irq"] = "h_header" /\ pc'["irq"] = "h_ignore"]_vars

\* C16 (amended): the handler takes intLock on entry, only when it is not
\* already running, and holds it through the switch to Standby, the header
\* and payload reads, the ack bookkeeping and the enqueue; it releases it
\* ahead of the auto ack-reply, which runs without it, ahead of the
\* begin_receive of an ignored frame, or else at its last step; the
\* application's begin_receive switches to RX only when the lock is free
C16_LockUntilReply ==
    [][/\ pc'["irq"] \in {"h_standby", "h_header", "h_payload", "h_reply"} => intLock'
       /\ (InSendAck \/ pc["irq"] \in {"h_ignore", "h_receive"}) => ~intLock
       /\ (intLock' /\ ~intLock) => (pc["irq"] = "idle" /\ pc'["irq"] # "idle")
       /\ (intLock /\ ~intLock')
             => \/ pc["irq"] = "h_end" /\ pc'["irq"] = "h_receive"
                \/ pc["irq"] = "h_header" /\ pc'["irq"] = "h_ignore"
                \/ pc["irq"] = "h_reply" /\ pc'["irq"] = "ack_csma"
       /\ (pc'["irq"] = pc["irq"] /\ mode # "RX" /\ mode' = "RX") => ~intLock]_vars

\* C16 witness: a data packet has been queued and the handler is sending
\* its ack-reply with the lock released, the application's begin_receive
\* free to run
C16_Witness ==
    /\ pc["irq"] = "sf_tx"
    /\ ~intLock
    /\ Len(packets) > 0
    /\ pc["app"] = "idle"

(* ========================= the claims, send_ack ======================= *)

\* the handler and its send_ack beside an application that calls
\* begin_receive (radio.py:283); the channel is busy or quiet as it pleases
NextAck ==
    \/ receive
    \/ IrqStep
    \/ \E f \in RecvFrames : FrameArrives(f)
    \/ PacketSent
    \/ RssiChanges

\* the callback thread is scheduled again and again, and its loops poll
\* without a pause, so it takes a step that is possible again and again;
\* the chip sends what it was given
FairAck ==
    /\ InitRecv /\ [][NextAck]_vars
    /\ SF_vars(IrqStep)
    /\ WF_vars(PacketSent)

\* C17 (as claimed): send_ack is fail-open: once it polls the channel it
\* goes on to transmit its ack-reply, even when the channel stays busy from
\* some moment on and never reads clear again
C17_SendAckFailOpen ==
    (<>[](_readRSSI(rssiReg) >= CSMA_LIMIT))
        => ((pc["irq"] = "ack_csma") ~> (pc["irq"] = "sf_tx"))

(* ====================== the claims, auto ack-reply ==================== *)

\* C19 (as claimed): having read an accepted frame, the handler goes on to
\* send an ack-reply exactly when the frame has the ack-request bit set and
\* the ack-reply bit clear and auto_acknowledge is on
C19_ReplyIffRequestOnly ==
    [][(pc["irq"] = "h_reply" /\ pc'["irq"] # "h_reply")
          => (pc'["irq"] = "ack_csma"
                <=> /\ ack_requested(hdr.ctl)
                    /\ ~ack_received(hdr.ctl)
                    /\ auto_acknowledge)]_vars

(* ===================== the claims, PendingAckSet ====================== *)

\* what the addressed node sends to this one: data and ack-replies
AckFrames == {RecvFrame(Node, c, 5) : c \in {0, 128}}

\* send, polling self.acks, beside the handler; the air brings ack-replies
\* and data frames of the addressed node
NextAcks ==
    \/ sendDefaultWait
    \/ SendSteps
    \/ IrqStep
    \/ \E f \in AckFrames : FrameArrives(f)
    \/ PacketSent
    \/ Tick

SpecAcks == Init /\ [][NextAcks]_vars

\* bit 7 of the control byte
IsAckReply(ctl) == ctl >= 128

\* C20: an accepted ack-reply is not enqueued and puts its sender in
\* self.acks, an accepted frame that is not an ack-reply is enqueued; a
\* sender is in self.acks exactly when one or more ack-replies of it were
\* recorded since the last check for it, so a check succeeds exactly when
\* there was at least one, and it leaves none for the next check
C20_OneEntryPerSender ==
    [][/\ (pc["irq"] = "h_payload" /\ pc'["irq"] = "h_reply")
          => IF IsAckReply(hdr.ctl)
             THEN packets' = packets /\ hdr.sender \in acks'
             ELSE /\ Len(packets') = Len(packets) + 1
                  /\ packets'[Len(packets')].sender = hdr.sender
                  /\ acks' = acks
       /\ \A s \in DOMAIN unconsumed' : (s \in acks') <=> (unconsumed'[s] >= 1)
       /\ (pc["app"] = "ack_sleep" /\ pc'["app"] # "ack_sleep")
          => /\ (result'.kind = "True") <=> (unconsumed[call.toAddress] >= 1)
             /\ call.toAddress \notin acks'
             /\ unconsumed'[call.toAddress] = 0]_vars

\* C20 witness: two ack-replies of the addressed node were recorded, none
\* enqueued, self.acks holds the one entry, and send is about to check
C20_Witness ==
    /\ call.op = "send"
    /\ pc["app"] = "ack_sleep"
    /\ unconsumed[call.toAddress] = 2
    /\ acks = {call.toAddress}
    /\ packets = <<>>

(* ==================== the claims, the handler's modes ================== *)

\* the steps of one handler execution: it reads the header only in the step
\* after its switch to Standby, which it makes exactly when it starts in RX
\* with PayloadReady set; started otherwise it reads nothing and leaves
\* self.packets and self.acks alone; the step on which it returns leaves
\* the mode RX
C21_HandlerSteps ==
    [][/\ (pc["irq"] = "idle" /\ pc'["irq"] # "idle")
          => /\ pc'["irq"] = IF mode = RF69_MODE_RX /\ payloadReady
                             THEN "h_standby" ELSE "h_end"
             /\ hdr' = hdr /\ packets' = packets /\ acks' = acks
       /\ (pc["irq"] = "h_standby" /\ pc'["irq"] # "h_standby")
          => (pc'["irq"] = "h_header" /\ mode' = RF69_MODE_STANDBY /\ hdr' = hdr)
       /\ (hdr' # hdr) => pc["irq"] = "h_header"
       /\ (pc'["irq"] = "h_header") => pc["irq"] \in {"h_standby", "h_header"}
       /\ (pc["irq"] \in {"h_end", "h_receive", "h_ignore"} /\ pc'["irq"] # pc["irq"])
          => (hdr' = hdr /\ packets' = packets /\ acks' = acks /\ fifo' \in {fifo, NoFrame})
       /\ (pc["irq"] # "idle" /\ pc'["irq"] = "idle") => mode' = RF69_MODE_RX]_vars

\* C21 (as claimed): every handler execution that starts in RX with
\* PayloadReady set goes through the steps above and ends, with the mode RX,
\* whichever path it takes; one that starts otherwise reads nothing
C21_HandlerEndsInReceive ==
    /\ C21_HandlerSteps
    /\ (pc["irq"] = "h_standby") ~> (pc["irq"] = "idle" /\ mode = RF69_MODE_RX)

(* ====================== the claims, listen cycle ====================== *)

\* the cycle duration the stored resolutions and coefficients amount to
CycleOf(timing) ==
    _getUsForResolution(timing.rxResolution) * timing.rxCoef
        + _getUsForResolution(timing.idleResolution) * timing.idleCoef

\* C22 (as claimed): the stored cycle duration is always the sum of the two
\* stored unit * coefficient products, and a call of listenModeSetDurations
\* that fails leaves the five fields of the timing as they were
C22_CycleIsSum ==
    /\ [](listen.cycleUs = CycleOf(listen))
    /\ [][(SetsDurations /\ result'.kind # "tuple") => listen' = listen]_vars

(* ======================== the claims, stale acks ====================== *)

\* C23 (as claimed): send returns True only when an ack-reply from toAddress
\* was recorded after the call wrote its first frame
C23_SuccessOnlyOnFreshAck ==
    [][(Returns /\ call.op = "send" /\ result'.kind = "True") => ackAfterTx']_vars

(* ===================== the claims, promiscuous mode =================== *)

\* C24 (as claimed): a frame accepted though its target is neither this
\* node's address nor 255 puts no sender in self.acks and starts no
\* ack-reply
C24_PromiscuousPassive ==
    [][(/\ pc["irq"] \in {"h_payload", "h_reply"}
        /\ pc'["irq"] # pc["irq"]
        /\ hdr.target # address
        /\ hdr.target # RF69_BROADCAST_ADDR)
          => (acks' = acks /\ pc'["irq"] # "ack_csma")]_vars

(* ======================= the claims, termination ====================== *)

====
